---- MODULE Spec2Model ----
(***************************************************************************)
(* Model of src/store/modules/user.js: the Vuex user module.               *)
(*                                                                         *)
(* Encoding of JavaScript values:                                          *)
(*   - an optional value (undefined / absent property) is a sequence of    *)
(*     length 0 (absent) or 1 (present): None, Some(x);                    *)
(*   - state.roles is None for the empty array [] and Some(role) for a     *)
(*     Role object; state.info is None for {} and Some(result);            *)
(*   - an error is a string; "" means no error.                            *)
(***************************************************************************)
EXTENDS Integers, Sequences, FiniteSets, Bags, TLC

(* ---------------------------- bounds ----------------------------------- *)
\* number of operations in flight at the same time
MaxPending == 2
\* number of clock ticks in one behaviour
MaxTicks == 1

(* --------------------------- constants --------------------------------- *)
\* 7 * 24 * 60 * 60 * 1000, the lifetime Login gives the cache entry
SevenDays == 604800000
\* the clock advances in steps of one lifetime
TickMs == SevenDays

None == <<>>
Some(x) == <<x>>

\* tokens the login endpoint hands out
Tokens == {"T1", "T2"}
\* errors the network layer fails with
NetErrors == {"e1", "e2"}
\* what a thrown TypeError is rejected with
TypeError == "TypeError"
\* errors raised by collaborators called inside a handler
SetError == "storage.set raised"
CommitError == "commit raised"
WelcomeError == "welcome raised"
\* greetings the generator may return
Greetings == {"Welcome"}

\* the message of the Error GetInfo rejects with (line 112)
ValidationError == "getInfo: roles must be a non-null array !"

(* ------------------------ responses of the API ------------------------- *)
\* login(): response.result is absent, or carries a token
LoginResponses == {[result |-> None]} \cup {[result |-> Some([token |-> t])] : t \in Tokens}

\* raw permissions: actionEntitySet is absent or a collection of {action}
RawPermission(permissionId, actionEntitySet) ==
  [permissionId |-> permissionId, actionEntitySet |-> actionEntitySet]

RawRole(permissions) == Some([id |-> "admin", permissions |-> permissions])

Profile(name, avatar, role) == [result |-> [name |-> name, avatar |-> avatar, role |-> role]]

PermRead == RawPermission("p1", Some(<<[action |-> "read"]>>))
PermEdit == RawPermission("p2", Some(<<[action |-> "add"], [action |-> "delete"]>>))
PermBare == RawPermission("p3", Some(<<>>))
PermNoSet == RawPermission("p4", None)

\* getInfo(): response.result with name, avatar and an optional role
ProfileResponses ==
  { Profile("nobody", "n.png", None),
    Profile("empty", "e.png", RawRole(<<>>)),
    Profile("alice", "a.png", RawRole(<<PermRead>>)),
    Profile("bob", "b.png", RawRole(<<PermEdit, PermRead, PermBare>>)),
    Profile("carol", "c.png", RawRole(<<PermRead, PermNoSet>>)) }

(* ------------------------------ state ---------------------------------- *)
VARIABLES
  state,     \* the Vuex state of the module: token, name, welcome, avatar, roles, info
  storage,   \* the cache entry under ACCESS_TOKEN: None or Some([value, expires])
  now,       \* new Date().getTime()
  calls,     \* the operations in flight, a bag of calls
  last       \* the operation that ran most recently: a handler chain or a cache read

vars == <<state, storage, now, calls, last>>

(* ----------------------------- mutations ------------------------------- *)
SET_TOKEN(s, token) == [s EXCEPT !.token = token]

SET_NAME(s, payload) == [s EXCEPT !.name = payload.name, !.welcome = payload.welcome]

SET_AVATAR(s, avatar) == [s EXCEPT !.avatar = avatar]

SET_ROLES(s, roles) == [s EXCEPT !.roles = roles]

\* SET_INFO losing the commit
SET_INFO_Lost(s, info) == s

SET_INFO(s, info) == [s EXCEPT !.info = info]

(* ------------------------- expiring local cache ------------------------ *)
\* storage.set(ACCESS_TOKEN, value, expires): overwrites the entry
storage_set(st, value, expires) == Some([value |-> value, expires |-> expires])

\* storage.remove(ACCESS_TOKEN): idempotent
storage_remove(st) == None

\* the entry is there and its expiry instant is still ahead of clock
Fresh(st, clock) == st # None /\ clock < st[1].expires

\* storage.get(ACCESS_TOKEN): the value while the entry is fresh, else absent
storage_get(st, clock) == IF Fresh(st, clock) THEN Some(st[1].value) ELSE None

\* what storage.get(ACCESS_TOKEN) leaves of the entry: a stale one is removed
storage_evict(st, clock) == IF Fresh(st, clock) THEN st ELSE None

(* ------------------------ results of a handler ------------------------- *)
\* what one run of a then/catch chain leaves behind: the new state and cache
\* entry, how the operation's promise was settled (settles counts the calls of
\* resolve/reject), and what was written to the console
Outcome(s, st, status, error, payload, logged, settles) ==
  [state |-> s, storage |-> st, status |-> status, error |-> error,
   payload |-> payload, logged |-> logged, settles |-> settles]

Resolve(s, st, payload) == Outcome(s, st, "resolved", "", payload, "", 1)

Reject(s, st, error) == Outcome(s, st, "rejected", error, None, "", 1)

(* ------------------------------- Login --------------------------------- *)
\* faults a collaborator can raise inside the then-callback of Login
LoginFaults == {"none", "set", "commit"}

\* LoginThen with the lifetime left out of the expiry
LoginThen_NoLifetime(s, st, clock, response, fault) ==
  LET result == response.result IN
  IF result = None THEN Reject(s, st, TypeError)
  ELSE IF fault = "set" THEN Reject(s, st, SetError)
  ELSE LET st1 == storage_set(st, result[1].token, clock) IN
       IF fault = "commit" THEN Reject(s, st1, CommitError)
       ELSE Resolve(SET_TOKEN(s, result[1].token), st1, None)

\* LoginThen giving the cache entry twice the lifetime
LoginThen_LongLifetime(s, st, clock, response, fault) ==
  LET result == response.result IN
  IF result = None THEN Reject(s, st, TypeError)
  ELSE IF fault = "set" THEN Reject(s, st, SetError)
  ELSE LET st1 == storage_set(st, result[1].token, clock + 2 * SevenDays) IN
       IF fault = "commit" THEN Reject(s, st1, CommitError)
       ELSE Resolve(SET_TOKEN(s, result[1].token), st1, None)

\* LoginThen starting the new session without the old profile's roles
LoginThen_ResetsRoles(s, st, clock, response, fault) ==
  LET result == response.result IN
  IF result = None THEN Reject(s, st, TypeError)
  ELSE IF fault = "set" THEN Reject(s, st, SetError)
  ELSE LET st1 == storage_set(st, result[1].token, clock + SevenDays) IN
       IF fault = "commit" THEN Reject(s, st1, CommitError)
       ELSE Resolve(SET_ROLES(SET_TOKEN(s, result[1].token), None), st1, None)

\* lines 72-79, with a throw landing in the catch of lines 80-82
LoginThen(s, st, clock, response, fault) ==
  LET result == response.result IN
  IF result = None THEN Reject(s, st, TypeError)
  ELSE IF fault = "set" THEN Reject(s, st, SetError)
  ELSE LET st1 == storage_set(st, result[1].token, clock + SevenDays) IN
       IF fault = "commit" THEN Reject(s, st1, CommitError)
       ELSE Resolve(SET_TOKEN(s, result[1].token), st1, None)

\* LoginCatch rejecting with an error of its own
LoginCatch_Replaced(s, st, error) == Reject(s, st, "login failed")

\* lines 80-82, the network call failed with error
LoginCatch(s, st, error) == Reject(s, st, error)

(* ------------------------------ GetInfo -------------------------------- *)
\* faults a collaborator can raise inside the then-callback of GetInfo
GetInfoFaults == {"none", "welcome"}

\* lines 95-99: (permission.actionEntitySet || {}).map(item => item.action);
\* the fallback {} has no map, so an absent collection throws
ActionListThrows(permission) == permission.actionEntitySet = None

ActionList(permission) ==
  LET set == permission.actionEntitySet[1] IN
  [k \in 1..Len(set) |-> set[k].action]

\* lines 95-98: { ...permission, actionList }
NormalizePermission(permission) ==
  [permissionId |-> permission.permissionId,
   actionEntitySet |-> permission.actionEntitySet,
   actionList |-> ActionList(permission)]

\* PermissionList collected back to front
PermissionList_Reversed(permissions) ==
  [k \in 1..Len(permissions) |-> permissions[Len(permissions) + 1 - k].permissionId]

\* line 101
PermissionList(permissions) == [k \in 1..Len(permissions) |-> permissions[k].permissionId]

\* lines 93-101: { ...result.role, permissions, permissionList }
NormalizeRole(rawRole) ==
  LET permissions == [k \in 1..Len(rawRole.permissions) |->
                        NormalizePermission(rawRole.permissions[k])] IN
  [id |-> rawRole.id, permissions |-> permissions,
   permissionList |-> PermissionList(permissions)]

NormalizeThrows(rawRole) ==
  \E k \in 1..Len(rawRole.permissions) : ActionListThrows(rawRole.permissions[k])

\* GetInfoThen taking an empty permissions collection as a valid role
GetInfoThen_EmptyAllowed(s, st, response, fault, greeting) ==
  LET result == response.result IN
  IF result.role # None
  THEN IF NormalizeThrows(result.role[1]) THEN Reject(s, st, TypeError)
       ELSE LET role == NormalizeRole(result.role[1])
                normalized == [result EXCEPT !.role = Some(role)]
                s1 == SET_ROLES(s, Some(role))
                s2 == SET_INFO(s1, Some(normalized))
            IN IF fault = "welcome" THEN Reject(s2, st, WelcomeError)
               ELSE LET s3 == SET_NAME(s2, [name |-> result.name, welcome |-> greeting])
                        s4 == SET_AVATAR(s3, result.avatar)
                    IN Resolve(s4, st, Some(normalized))
  ELSE Reject(s, st, ValidationError)

\* lines 90-113, with a throw landing in the catch of lines 114-116
GetInfoThen(s, st, response, fault, greeting) ==
  LET result == response.result IN
  IF result.role # None /\ Len(result.role[1].permissions) > 0
  THEN IF NormalizeThrows(result.role[1]) THEN Reject(s, st, TypeError)
       ELSE LET role == NormalizeRole(result.role[1])
                normalized == [result EXCEPT !.role = Some(role)]
                s1 == SET_ROLES(s, Some(role))
                s2 == SET_INFO(s1, Some(normalized))
            IN IF fault = "welcome" THEN Reject(s2, st, WelcomeError)
               ELSE LET s3 == SET_NAME(s2, [name |-> result.name, welcome |-> greeting])
                        s4 == SET_AVATAR(s3, result.avatar)
                    IN Resolve(s4, st, Some(normalized))
  ELSE Reject(s, st, ValidationError)

\* lines 114-116, the network call failed with error
GetInfoCatch(s, st, error) == Reject(s, st, error)

(* ------------------------------- Logout -------------------------------- *)
\* LogoutThen clearing the profile as well
LogoutThen_ClearsProfile(s, st) ==
  LET s1 == SET_TOKEN(s, "")
      s2 == SET_ROLES(s1, None)
      s3 == SET_INFO(s2, None)
      s4 == SET_NAME(s3, [name |-> "", welcome |-> ""])
  IN Resolve(SET_AVATAR(s4, ""), storage_remove(st), None)

\* LogoutThen leaving the cache entry in place
LogoutThen_KeepsCache(s, st) ==
  LET s1 == SET_TOKEN(s, "")
      s2 == SET_ROLES(s1, None)
  IN Resolve(s2, st, None)

\* lines 123-127
LogoutThen(s, st) ==
  LET s1 == SET_TOKEN(s, "")
      s2 == SET_ROLES(s1, None)
  IN Resolve(s2, storage_remove(st), None)

\* LogoutCatch handing the error to the caller
LogoutCatch_Rejecting(s, st, error) == Outcome(s, st, "rejected", error, None, error, 1)

\* lines 128-130: the error is logged, resolve() is commented out
LogoutCatch(s, st, error) == Outcome(s, st, "pending", "", None, error, 0)

(* -------------------------- dispatched calls --------------------------- *)
\* an operation in flight: its network call has not come back yet
NewCall(op, sent) == [op |-> op, sent |-> sent]

\* an operation after its handler chain has run: what the network call came
\* back with, which collaborator raised, the token the handler found in the
\* state, and the promise the caller holds
Settled(call, response, netError, fault, out) ==
  [op |-> call.op, sent |-> call.sent, found |-> state.token,
   response |-> response, netError |-> netError,
   fault |-> fault, status |-> out.status, error |-> out.error,
   payload |-> out.payload, logged |-> out.logged, settles |-> out.settles]

NoCall == NewCall("none", "")

NoOutcome == Outcome(state, storage, "pending", "", None, "", 0)

\* the calls of operation op whose network call is still out
Pending(op) == {call \in BagToSet(calls) : call.op = op}

\* the handler chain of call has run with outcome out
Complete(call, response, netError, fault, out) ==
  /\ state' = out.state
  /\ storage' = out.storage
  /\ calls' = calls (-) SetToBag({call})
  /\ last' = Settled(call, response, netError, fault, out)
  /\ UNCHANGED now

\* the bag of calls after op has been dispatched
Dispatch(op, sent) == calls (+) SetToBag({NewCall(op, sent)})

(* ------------------------------ actions -------------------------------- *)
Init ==
  /\ state = [token |-> "", name |-> "", welcome |-> "", avatar |-> "",
              roles |-> None, info |-> None]
  /\ storage = None
  /\ now = 0
  /\ calls = EmptyBag
  /\ last = Settled(NoCall, None, "", "none", NoOutcome)

\* lines 69-71: login(userInfo) is called when the action is dispatched
Login ==
  /\ BagCardinality(calls) < MaxPending
  /\ calls' = Dispatch("Login", "")
  /\ UNCHANGED <<state, storage, now, last>>

\* lines 87-90
GetInfo ==
  /\ BagCardinality(calls) < MaxPending
  /\ calls' = Dispatch("GetInfo", "")
  /\ UNCHANGED <<state, storage, now, last>>

\* lines 121-123: logout(state.token) reads the token at dispatch
Logout ==
  /\ BagCardinality(calls) < MaxPending
  /\ calls' = Dispatch("Logout", state.token)
  /\ UNCHANGED <<state, storage, now, last>>

LoginResolved ==
  \E call \in Pending("Login"), response \in LoginResponses, fault \in LoginFaults :
    /\ fault # "none" => response.result # None
    /\ Complete(call, Some(response), "", fault,
                LoginThen(state, storage, now, response, fault))

LoginFailed ==
  \E call \in Pending("Login"), error \in NetErrors :
    Complete(call, None, error, "none", LoginCatch(state, storage, error))

GetInfoResolved ==
  \E call \in Pending("GetInfo"), response \in ProfileResponses, fault \in GetInfoFaults,
     greeting \in Greetings :
    Complete(call, Some(response), "", fault,
             GetInfoThen(state, storage, response, fault, greeting))

GetInfoFailed ==
  \E call \in Pending("GetInfo"), error \in NetErrors :
    Complete(call, None, error, "none", GetInfoCatch(state, storage, error))

LogoutResolved ==
  \E call \in Pending("Logout") :
    Complete(call, None, "", "none", LogoutThen(state, storage))

LogoutFailed ==
  \E call \in Pending("Logout"), error \in NetErrors :
    Complete(call, None, error, "none", LogoutCatch(state, storage, error))

\* a consumer of the session reads the persisted token: storage.get(ACCESS_TOKEN)
Get ==
  /\ storage' = storage_evict(storage, now)
  /\ last' = Settled(NewCall("get", ""), None, "", "none",
                     Outcome(state, storage', "returned", "", storage_get(storage, now), "", 0))
  /\ UNCHANGED <<state, now, calls>>

\* time passes
Tick ==
  /\ now < MaxTicks * TickMs
  /\ now' = now + TickMs
  /\ UNCHANGED <<state, storage, calls, last>>

Next ==
  \/ Login
  \/ GetInfo
  \/ Logout
  \/ LoginResolved
  \/ LoginFailed
  \/ GetInfoResolved
  \/ GetInfoFailed
  \/ LogoutResolved
  \/ LogoutFailed
  \/ Get
  \/ Tick

Spec == Init /\ [][Next]_vars

(* ----------------------------- properties ------------------------------ *)
\* this step ran the handler chain of an operation op
Completes(op) == BagCardinality(calls') < BagCardinality(calls) /\ last'.op = op

\* the network call of the last completed operation came back with a response
Responded(op) == last.op = op /\ last.response # None

\* C1: once the network call of a Logout has completed, with success or with
\* failure, token is '', roles is empty and the cache entry is absent.
C1_LogoutAlwaysClears ==
  last.op = "Logout" => state.token = "" /\ state.roles = None /\ storage = None

\* C2: the promise of every operation whose network call has completed has
\* been settled exactly once, resolved or rejected.
C2_SettledExactlyOnce ==
  last.op \in {"Login", "GetInfo", "Logout"} =>
    last.settles = 1 /\ last.status \in {"resolved", "rejected"}

C4_LoginFailureChangesNothing ==
  [][ (Completes("Login") /\ last'.status = "rejected")
        => state' = state /\ storage' = storage ]_vars

\* a profile response without a role, or with an empty permissions collection
NoPermissions(response) ==
  \/ response.result.role = None
  \/ Len(response.result.role[1].permissions) = 0

\* C5: when the profile has no role or an empty permissions collection,
\* GetInfo rejects with the validation error and changes no field of the state.
C5_GetInfoValidation ==
  [][ (Completes("GetInfo") /\ last'.response # None /\ NoPermissions(last'.response[1]))
        => /\ last'.status = "rejected"
           /\ last'.error = "getInfo: roles must be a non-null array !"
           /\ last'.payload = None
           /\ state' = state ]_vars

C5_Witness ==
  /\ Responded("GetInfo") /\ NoPermissions(last.response[1])
  /\ last.response[1].result.role # None
  /\ last.status = "rejected"
  /\ state.roles # None /\ state.name = "bob" /\ state.token = "T1"

\* C6: a GetInfo either resolves with all of roles, info, name, welcome and
\* avatar taken from its normalized profile, or rejects with all five unchanged.
C6_GetInfoAllOrNothing ==
  [][ Completes("GetInfo") =>
        \/ /\ last'.status = "resolved"
           /\ last'.payload # None
           /\ state'.roles = last'.payload[1].role
           /\ state'.info = last'.payload
           /\ state'.name = last'.payload[1].name
           /\ state'.avatar = last'.payload[1].avatar
           /\ state'.welcome \in Greetings
        \/ /\ last'.status = "rejected"
           /\ state'.roles = state.roles
           /\ state'.info = state.info
           /\ state'.name = state.name
           /\ state'.welcome = state.welcome
           /\ state'.avatar = state.avatar ]_vars

\* permissionList is the permissionId of permissions, in order
PermissionListMatches(role) ==
  /\ Len(role.permissionList) = Len(role.permissions)
  /\ \A k \in 1..Len(role.permissions) :
       role.permissionList[k] = role.permissions[k].permissionId

\* role is the normalized form of rawRole
NormalizedFrom(role, rawRole) ==
  /\ role.id = rawRole.id
  /\ Len(role.permissions) = Len(rawRole.permissions)
  /\ \A k \in 1..Len(rawRole.permissions) :
       LET raw == rawRole.permissions[k]
           per == role.permissions[k]
       IN /\ per.permissionId = raw.permissionId
          /\ Len(per.actionList) = Len(raw.actionEntitySet[1])
          /\ \A j \in 1..Len(per.actionList) :
               per.actionList[j] = raw.actionEntitySet[1][j].action

\* a profile with a non-empty permissions collection, each with its
\* action-entity collection
WellFormed(response) ==
  /\ ~NoPermissions(response)
  /\ \A k \in 1..Len(response.result.role[1].permissions) :
       response.result.role[1].permissions[k].actionEntitySet # None

\* C7: a GetInfo on a well-formed profile commits the normalized Role:
\* permissionList is the permissionId of permissions in order, each actionList
\* is the actions of the raw actionEntitySet in order; and whenever roles is a
\* Role, permissionList matches permissions.
C7_Normalization ==
  /\ state.roles # None => PermissionListMatches(state.roles[1])
  /\ (Responded("GetInfo") /\ WellFormed(last.response[1]) /\ last.fault = "none")
       => /\ last.status = "resolved"
          /\ state.roles = last.payload[1].role
          /\ PermissionListMatches(state.roles[1])
          /\ NormalizedFrom(state.roles[1], last.response[1].result.role[1])

C7_Witness ==
  /\ Responded("GetInfo") /\ WellFormed(last.response[1]) /\ last.status = "resolved"
  /\ state.roles # None
  /\ state.roles[1].permissionList = <<"p2", "p1", "p3">>
  /\ state.roles[1].permissions[1].actionList = <<"add", "delete">>
  /\ state.roles[1].permissions[3].actionList = <<>>

\* C8: a GetInfo on a profile in which a permission has no action-entity
\* collection resolves, commits the profile, and gives that permission the
\* empty actionList.
C8_AbsentActionSetAccepted ==
  (/\ Responded("GetInfo") /\ ~NoPermissions(last.response[1])
   /\ ~WellFormed(last.response[1]) /\ last.fault = "none")
    => /\ last.status = "resolved"
       /\ state.roles = last.payload[1].role
       /\ \A k \in 1..Len(state.roles[1].permissions) :
            state.roles[1].permissions[k].actionEntitySet = None
              => state.roles[1].permissions[k].actionList = <<>>

\* C9: a Login or GetInfo whose network call fails with error e rejects with
\* e itself and does not resolve.
C9_NetworkErrorPropagates ==
  (last.op \in {"Login", "GetInfo"} /\ last.netError # "")
    => /\ last.status = "rejected"
       /\ last.error = last.netError
       /\ last.payload = None
       /\ last.settles = 1

C9_Witness ==
  /\ last.op = "Login" /\ last.netError = "e2"
  /\ last.status = "rejected" /\ last.error = "e2"

\* C10: the promise of a Logout is never rejected; a failure of its network
\* call is written to the console and nothing else.
C10_LogoutNeverRejects ==
  last.op = "Logout" =>
    /\ last.status # "rejected"
    /\ last.error = ""
    /\ last.netError # "" => last.logged = last.netError

C10_Witness ==
  /\ last.op = "Logout" /\ last.netError = "e1" /\ last.logged = "e1"
  /\ last.status # "rejected"

\* this step is a read of the cache
GetStep == last'.op = "get" /\ calls' = calls /\ now' = now

\* C11: Logout leaves name, welcome, avatar and info as they were, whatever
\* the outcome of its network call.
C11_LogoutKeepsProfile ==
  [][ Completes("Logout") =>
        /\ state'.name = state.name
        /\ state'.welcome = state.welcome
        /\ state'.avatar = state.avatar
        /\ state'.info = state.info ]_vars

C11_Witness ==
  /\ last.op = "Logout" /\ last.status = "resolved"
  /\ state.token = "" /\ state.roles = None
  /\ state.name = "alice" /\ state.welcome = "Welcome" /\ state.avatar = "a.png"
  /\ state.info # None

Mirror ==
  /\ state.token # "" <=> storage # None
  /\ storage # None => storage[1].value = state.token

\* C13: token mirrors the cache entry; no step other than the eviction of an
\* expired entry makes the two diverge.
C13_TokenMirrorsCache ==
  [][ (Mirror /\ ~GetStep) => Mirror' ]_vars

\* C14: name, welcome, avatar and info change only when a GetInfo resolves;
\* roles changes only when a GetInfo resolves or a Logout clears it.
C14_ProfileSetOnlyByGetInfo ==
  [][ /\ (\/ state'.name # state.name
          \/ state'.welcome # state.welcome
          \/ state'.avatar # state.avatar
          \/ state'.info # state.info)
         => (Completes("GetInfo") /\ last'.status = "resolved")
      /\ state'.roles # state.roles
         => \/ Completes("GetInfo") /\ last'.status = "resolved"
            \/ Completes("Logout") /\ last'.status = "resolved" /\ state'.roles = None
    ]_vars

\* C15: whenever roles is populated, token is non-empty.
C15_LoadedImpliesAuthenticated ==
  state.roles # None => state.token # ""

\* C16: a Login changes none of roles, info, name, welcome and avatar; a
\* successful one changes token to the token of the response.
C16_LoginKeepsProfile ==
  [][ Completes("Login") =>
        /\ state'.roles = state.roles
        /\ state'.info = state.info
        /\ state'.name = state.name
        /\ state'.welcome = state.welcome
        /\ state'.avatar = state.avatar
        /\ last'.status = "resolved" => state'.token = last'.response[1].result[1].token
    ]_vars

C16_Witness ==
  /\ last.op = "Login" /\ last.status = "resolved"
  /\ last.found = "T1" /\ state.token = "T2"
  /\ state.roles # None /\ state.name = "bob"

\* C17: while roles is a Role, info.role is that Role; and a GetInfo that
\* resolved resolved with the committed info, which is the result of the
\* response with its role replaced by the normalized Role.
C17_InfoRoleIsRoles ==
  /\ state.roles # None => (state.info # None /\ state.info[1].role = state.roles)
  /\ (last.op = "GetInfo" /\ last.status = "resolved")
       => /\ last.payload = state.info
          /\ state.info[1].role = state.roles
          /\ state.info[1].name = last.response[1].result.name
          /\ state.info[1].avatar = last.response[1].result.avatar

C17_Witness ==
  /\ last.op = "GetInfo" /\ last.status = "resolved"
  /\ state.info # None /\ state.info[1].name = "bob"
  /\ state.info[1].role = state.roles
  /\ state.roles[1].permissionList = <<"p2", "p1", "p3">>

\* C18: a Logout is sent with the token of the state at dispatch, and when
\* its network call succeeds it clears token and the cache entry as they are
\* then, also when a later Login has replaced the token that was sent.
C18_LogoutClearsCurrentSession ==
  [][ /\ (Completes("Logout") /\ last'.status = "resolved")
         => /\ state'.token = ""
            /\ storage' = None
            /\ last'.found = state.token
      /\ \A call \in BagToSet(calls') :
           (call.op = "Logout" /\ CopiesIn(call, calls') > CopiesIn(call, calls))
             => call.sent = state.token
    ]_vars

C18_Witness ==
  /\ last.op = "Logout" /\ last.status = "resolved"
  /\ last.sent = "T1" /\ last.found = "T2"
  /\ state.token = "" /\ storage = None

====
